---- MODULE Spec2Model ----
(***************************************************************************)
(* A model of .github/scripts/validate-kata-deploy-options.py: the         *)
(* pipeline of main (version resolution, extraction of the options of the  *)
(* upstream values.yaml, description resolution, documentation check,      *)
(* report generation, print, save, exit status).                           *)
(*                                                                         *)
(* Python strings are sequences of one-character strings, so that path     *)
(* concatenation, prefix tests, regular-expression search and sorting are  *)
(* computed character by character as the code computes them.              *)
(***************************************************************************)
EXTENDS Integers, Sequences, FiniteSets, TLC

VARIABLES
    args,            \* argparse namespace: output_format, fail_on_missing
    chart_yaml,      \* ./Chart.yaml as yaml.safe_load sees it (or absent)
    values_yaml,     \* <chart>/values.yaml as yaml.safe_load sees it (or absent)
    readme_md,       \* <chart>/README.md (or absent)
    github,          \* what fetch_github_readme would return (None or a text)
    our_values,      \* --our-values file (or absent)
    doc_files,       \* --our-docs files, each absent or a text
    tmp_mtime,       \* Path('/tmp').stat().st_mtime
    pc,              \* position of main
    kata_version,    \* main's kata_version
    options,         \* main's options (list of ConfigOption)
    all_content,     \* check_documentation's search corpus
    documented,      \* main's documented
    undocumented,    \* main's undocumented
    report,          \* main's report (<<>> while not generated)
    stdout,          \* what the run printed, in order
    report_file,     \* /tmp/validation-report.md (<<>> while not written)
    exception,       \* name of the uncaught exception that ended the run, or ""
    exit_status      \* process exit status (-1 while running)

vars == <<args, chart_yaml, values_yaml, readme_md, github, our_values, doc_files,
          tmp_mtime, pc, kata_version, options, all_content, documented,
          undocumented, report, stdout, report_file, exception, exit_status>>

environment == <<args, chart_yaml, values_yaml, readme_md, github, our_values,
                 doc_files, tmp_mtime>>

(***************************************************************************)
(* Bounds of the model.                                                    *)
(***************************************************************************)
\* Largest number of keys (at all levels together) of a values.yaml tree.
MaxNodes == 3

\* Largest number of keys of a values.yaml tree in the runs of the whole pipeline.
MaxPipelineNodes == 2

\* Largest number of entries of the dependencies list of Chart.yaml.
MaxDeps == 2

\* Largest number of --our-docs files.
MaxDocs == 1

(***************************************************************************)
(* Strings.                                                                *)
(***************************************************************************)
UpperChars == <<"A","B","C","D","E","F","G","H","I","J","K","L","M","N","O","P","Q","R","S","T","U","V","W","X","Y","Z">>

LowerChars == <<"a","b","c","d","e","f","g","h","i","j","k","l","m","n","o","p","q","r","s","t","u","v","w","x","y","z">>

\* The printable ASCII characters from code point 32 on; the double quote (34)
\* and the backslash (92), which no text of the model contains, and the backtick
\* (96) are spelled out.
Ascii == <<" ","!","QUOTE","#","$","%","&","'","(",")","*","+",",","-",".","/","0","1","2","3","4","5","6","7","8","9",":",";","<","=",">","?","@","A","B","C","D","E","F","G","H","I","J","K","L","M","N","O","P","Q","R","S","T","U","V","W","X","Y","Z","[","BACKSLASH","]","^","_","BACKTICK","a","b","c","d","e","f","g","h","i","j","k","l","m","n","o","p","q","r","s","t","u","v","w","x","y","z","{","|","}","~">>

CodePointOf ==
    [c \in {Ascii[i] : i \in 1..Len(Ascii)} |->
        31 + (CHOOSE i \in 1..Len(Ascii) : Ascii[i] = c)]

\* ord(c)
CodePoint(c) ==
    IF c = "\n" THEN 10
    ELSE IF c \in DOMAIN CodePointOf THEN CodePointOf[c] ELSE 0

LowerOf ==
    [c \in {UpperChars[i] : i \in 1..Len(UpperChars)} |->
        LowerChars[CHOOSE i \in 1..Len(UpperChars) : UpperChars[i] = c]]

\* c.lower() of one character, as re.IGNORECASE folds case
ToLower(c) == IF c \in DOMAIN LowerOf THEN LowerOf[c] ELSE c

\* \s of the re module, over the characters of the model
IsSpace(c) == c \in {" ", "\n"}

\* a < b of two Python strings
RECURSIVE StrLess(_, _)
StrLess(a, b) ==
    IF b = <<>> THEN FALSE
    ELSE IF a = <<>> THEN TRUE
    ELSE IF CodePoint(Head(a)) # CodePoint(Head(b))
         THEN CodePoint(Head(a)) < CodePoint(Head(b))
         ELSE StrLess(Tail(a), Tail(b))

\* s.startswith(prefix)
StartsWith(s, prefix) ==
    /\ Len(prefix) <= Len(s)
    /\ \A i \in 1..Len(prefix) : s[i] = prefix[i]

\* x in lst, of a Python list
InList(x, lst) == \E i \in 1..Len(lst) : lst[i] = x

(***************************************************************************)
(* Program constants.                                                      *)
(***************************************************************************)
Unknown == <<"u","n","k","n","o","w","n">>

KataDeploy == <<"k","a","t","a","-","d","e","p","l","o","y">>

subchart_alias == <<"k","a","t","a","-","a","s","-","c","o","c","o","-","r","u","n","t","i","m","e">>

\* exclude_options of main: the one path env.hostOS
exclude_options == << <<"e","n","v",".","h","o","s","t","O","S">> >>

(***************************************************************************)
(* YAML values as yaml.safe_load returns them: a node kind, the text       *)
(* str(value) gives, and for a mapping its items in insertion order.       *)
(***************************************************************************)
Leaf(kind, text) == [kind |-> kind, text |-> text, items |-> <<>>]

Mapping(items) == [kind |-> "mapping", text |-> <<>>, items |-> items]

\* One item of a mapping.
Item(key, value) == [key |-> key, value |-> value]

YamlFalse == Leaf("boolean", <<"F","a","l","s","e">>)

YamlStr == Leaf("string", <<"c","i">>)

YamlInt == Leaf("integer", <<"1">>)

YamlList == Leaf("sequence", <<"[","]">>)

YamlNull == Leaf("null", <<"N","o","n","e">>)

\* isinstance(value, dict)
IsDict(value) == value.kind = "mapping"

\* The type of the key taken for the type of the value: type(key).__name__
TypeNameOfKey(value) == "str"

\* type(value).__name__
TypeName(value) ==
    CASE value.kind = "boolean"  -> "bool"
      [] value.kind = "string"   -> "str"
      [] value.kind = "integer"  -> "int"
      [] value.kind = "sequence" -> "list"
      [] value.kind = "null"     -> "NoneType"
      [] value.kind = "mapping"  -> "dict"

(***************************************************************************)
(* ConfigOption and extract_options.                                       *)
(***************************************************************************)
ConfigOption(name, path, type, default) ==
    [name |-> name, path |-> path, type |-> type, default |-> default,
     description |-> <<>>, documented_in |-> {}]

\* The path without its parent: current_path = key
CurrentPathKeyOnly(parent_path, key) == key

\* current_path = f"{parent_path}.{key}" if parent_path else key
CurrentPath(parent_path, key) ==
    IF parent_path # <<>> THEN parent_path \o <<".">> \o key ELSE key

\* key.startswith('_')
IsInternalKey(key) == StartsWith(key, <<"_">>)

\* The exclusion list not passed on: exclude_options left at its default, []
IsExcludedByDefault(current_path, excluded) == InList(current_path, <<>>)

\* current_path in exclude_options
IsExcluded(current_path, excluded) == InList(current_path, excluded)

\* The loop of extract_options over data.items(), from item i on; the options
\* it appends, in order.
RECURSIVE ExtractItems(_, _, _, _)
ExtractItems(items, i, parent_path, excluded) ==
    IF i > Len(items) THEN <<>>
    ELSE LET key == items[i].key
             value == items[i].value
             current_path == CurrentPath(parent_path, key)
             appended ==
                 IF IsInternalKey(key) THEN <<>>
                 ELSE IF IsExcluded(current_path, excluded) THEN <<>>
                 ELSE IF IsDict(value)
                      THEN ExtractItems(value.items, 1, current_path, excluded)
                      ELSE << ConfigOption(key, current_path, TypeName(value), value) >>
         IN  appended \o ExtractItems(items, i + 1, parent_path, excluded)

extract_options(data, parent_path, excluded) ==
    IF IsDict(data) THEN ExtractItems(data.items, 1, parent_path, excluded) ELSE <<>>

(***************************************************************************)
(* The values.yaml trees of the model: every mapping of at most n keys in  *)
(* all, keys unique per mapping, over Keys and LeafValues.                 *)
(***************************************************************************)
KeyEnv == <<"e","n","v">>

KeyHostOS == <<"h","o","s","t","O","S">>

KeyInternal == <<"_","a">>

KeyDotted == <<"h","o","s","t","O","S",".","e","n","v">>

KeyEmpty == <<>>

Keys == {KeyEnv, KeyHostOS, KeyInternal, KeyDotted, KeyEmpty}

PlainKeys == {KeyEnv, KeyHostOS}

LeafValues == {YamlFalse, YamlStr, YamlInt, YamlList, YamlNull}

KeysOf(items) == {items[i].key : i \in 1..Len(items)}

\* The item lists of exactly n keys in all (nested ones included), n > 0, given
\* table[j + 1], the item lists of exactly j keys, for every j < n.
ItemListsFrom(keys, leaves, n, table) ==
    UNION {
        UNION {
            { <<Item(k, v)>> \o rest :
                v \in IF m = 0 THEN leaves \cup {Mapping(<<>>)}
                      ELSE {Mapping(f) : f \in table[m + 1]},
                rest \in {r \in table[n - m] : k \notin KeysOf(r)} }
            : k \in keys }
        : m \in 0..(n - 1) }

\* The table of the item lists of exactly 0, 1, ... n keys.
RECURSIVE ItemListTable(_, _, _)
ItemListTable(keys, leaves, n) ==
    IF n = 0 THEN << {<<>>} >>
    ELSE CHOOSE grown \in
            { Append(table, ItemListsFrom(keys, leaves, n, table))
              : table \in {ItemListTable(keys, leaves, n - 1)} } : TRUE

\* The item lists of at most n keys in all.
ItemLists(keys, leaves, n) ==
    UNION { ItemListTable(keys, leaves, n)[j + 1] : j \in 0..n }

Trees(keys, leaves, n) == {Mapping(items) : items \in ItemLists(keys, leaves, n)}

(***************************************************************************)
(* Regular-expression search, re.search(..., re.IGNORECASE), of the forms  *)
(* the code uses. p is the literal re.escape(pattern), s the text.         *)
(***************************************************************************)
\* p occurs in s at position j, case folded
MatchAt(p, s, j) ==
    /\ j >= 1
    /\ j + Len(p) - 1 <= Len(s)
    /\ \A k \in 1..Len(p) : ToLower(s[j + k - 1]) = ToLower(p[k])

\* s[a..b] holds no newline: what .* can run over
NoNewline(s, a, b) == \A k \in a..b : s[k] # "\n"

\* s[a..b] is white space: what \s* can run over
AllSpace(s, a, b) == \A k \in a..b : IsSpace(s[k])

SetFlag == <<"-","-","s","e","t">>

\* rf'#.*{re.escape(pattern)}'
InComment(p, s) ==
    \E i \in 1..Len(s) :
        /\ s[i] = "#"
        /\ \E j \in (i + 1)..(Len(s) + 1) : MatchAt(p, s, j) /\ NoNewline(s, i + 1, j - 1)

\* rf'{re.escape(pattern)}\s*:'
AsYamlKey(p, s) ==
    \E e \in 1..Len(s) :
        /\ s[e] = ":"
        /\ \E j \in 1..e : j + Len(p) <= e /\ MatchAt(p, s, j) /\ AllSpace(s, j + Len(p), e - 1)

\* rf'`{re.escape(pattern)}`'
InBackticks(p, s) ==
    \E i \in 1..Len(s) :
        /\ s[i] = "BACKTICK"
        /\ i + 1 + Len(p) <= Len(s)
        /\ s[i + 1 + Len(p)] = "BACKTICK"
        /\ MatchAt(p, s, i + 1)

\* rf'--set.*{re.escape(pattern)}'
InSetExample(p, s) ==
    \E i \in 1..Len(s) :
        /\ MatchAt(SetFlag, s, i)
        /\ \E j \in (i + Len(SetFlag))..(Len(s) + 1) :
              MatchAt(p, s, j) /\ NoNewline(s, i + Len(SetFlag), j - 1)

\* rf'\|\s*{re.escape(pattern)}\s*\|'
InTable(p, s) ==
    \E i \in 1..Len(s) :
        /\ s[i] = "|"
        /\ \E e \in (i + 1)..Len(s) :
              /\ s[e] = "|"
              /\ \E j \in (i + 1)..e :
                    /\ j + Len(p) <= e
                    /\ AllSpace(s, i + 1, j - 1)
                    /\ MatchAt(p, s, j)
                    /\ AllSpace(s, j + Len(p), e - 1)

\* search_patterns of check_documentation, in the order of the list
SearchForms == <<"comment", "key", "backticks", "set", "table">>

Search(form, p, s) ==
    CASE form = "comment"   -> InComment(p, s)
      [] form = "key"       -> AsYamlKey(p, s)
      [] form = "backticks" -> InBackticks(p, s)
      [] form = "set"       -> InSetExample(p, s)
      [] form = "table"     -> InTable(p, s)

\* The loop over search_patterns: whether one of them is found in s.
AnyFormMatches(p, s) == \E f \in 1..Len(SearchForms) : Search(SearchForms[f], p, s)

(***************************************************************************)
(* check_documentation.                                                    *)
(***************************************************************************)
AbsentFile == [exists |-> FALSE, text |-> <<>>]

File(text) == [exists |-> TRUE, text |-> text]

\* The corpus: the text of our values.yaml and of every documentation file that
\* exists, each followed by a newline.
RECURSIVE ReadAll(_, _)
ReadAll(files, i) ==
    IF i > Len(files) THEN <<>>
    ELSE (IF files[i].exists THEN files[i].text \o <<"\n">> ELSE <<>>)
         \o ReadAll(files, i + 1)

AllContent(values_file, docs) == ReadAll(<<values_file>> \o docs, 1)

\* prefixed_path = f"{subchart_alias}.{option.path}"
PrefixedPath(alias, option) == alias \o <<".">> \o option.path

\* The patterns tried from the bare name up
PatternsNameFirst(option, alias) ==
    << option.name, option.path, PrefixedPath(alias, option) >>

\* patterns of check_documentation, in the order they are tried
Patterns(option, alias) == << PrefixedPath(alias, option), option.path, option.name >>

\* The loop over patterns from pattern i on: the option as the loop leaves it
\* (documented_in gains the first pattern found, and the loop breaks) and found.
RECURSIVE TryPatterns(_, _, _, _)
TryPatterns(option, patterns, i, content) ==
    IF i > Len(patterns) THEN [option |-> option, found |-> FALSE]
    ELSE IF AnyFormMatches(patterns[i], content)
         THEN [option |-> [option EXCEPT !.documented_in = @ \cup {patterns[i]}],
               found |-> TRUE]
         ELSE TryPatterns(option, patterns, i + 1, content)

\* The body of the loop over options, for each option of the list.
CheckAll(opts, content, alias) ==
    [i \in 1..Len(opts) |-> TryPatterns(opts[i], Patterns(opts[i], alias), 1, content)]

\* The loop without its else: every option is appended to undocumented
RECURSIVE ClassifiedWithoutElse(_, _, _)
ClassifiedWithoutElse(checked, i, want) ==
    IF i > Len(checked) THEN <<>>
    ELSE (IF want => checked[i].found THEN <<checked[i].option>> ELSE <<>>)
         \o ClassifiedWithoutElse(checked, i + 1, want)

\* documented (want = TRUE) or undocumented (want = FALSE): the options whose
\* found is want, in the order of the list, from option i on.
RECURSIVE Classified(_, _, _)
Classified(checked, i, want) ==
    IF i > Len(checked) THEN <<>>
    ELSE (IF checked[i].found = want THEN <<checked[i].option>> ELSE <<>>)
         \o Classified(checked, i + 1, want)

\* check_documentation: the options as mutated, documented, undocumented
check_documentation(opts, values_file, docs, alias) ==
    LET content == AllContent(values_file, docs)
    IN  CHOOSE result \in
            { [all_content |-> content,
               options |-> [i \in 1..Len(opts) |-> checked[i].option],
               documented |-> Classified(checked, 1, TRUE),
               undocumented |-> Classified(checked, 1, FALSE)]
              : checked \in {CheckAll(opts, content, alias)} } : TRUE

(***************************************************************************)
(* Description resolution (the second half of parse_kata_deploy_values).   *)
(***************************************************************************)
\* The first position from i on that holds no white space (Len(s) + 1 if none).
RECURSIVE SkipSpaces(_, _)
SkipSpaces(s, i) ==
    IF i <= Len(s) /\ IsSpace(s[i]) THEN SkipSpaces(s, i + 1) ELSE i

\* The first position from i on that holds a bar (0 if none).
RECURSIVE NextBar(_, _)
NextBar(s, i) ==
    IF i > Len(s) THEN 0
    ELSE IF s[i] = "|" THEN i
    ELSE NextBar(s, i + 1)

\* rf'\|\s*`?{re.escape(option.path)}`?\s*\|([^|]+)\|' tried at position i, the
\* first optional backtick taken (b1 = 1) or not, and the second (b2) likewise:
\* whether it matches there, and group(1). (No path of the model begins with
\* white space, so \s* never has to give back what it took.)
RowAttempt(path, s, i, b1, b2) ==
    LET j == SkipSpaces(s, i + 1)
        a == j + b1
        z == a + Len(path)
        e == SkipSpaces(s, z + b2)
        f == NextBar(s, e + 1)
    IN  [ok |-> /\ s[i] = "|"
                /\ (b1 = 1 => j <= Len(s) /\ s[j] = "BACKTICK")
                /\ MatchAt(path, s, a)
                /\ (b2 = 1 => z <= Len(s) /\ s[z] = "BACKTICK")
                /\ e <= Len(s)
                /\ s[e] = "|"
                /\ f > e + 1,
         group |-> IF f > e + 1 THEN SubSeq(s, e + 1, f - 1) ELSE <<>>]

\* The alternatives of the two optional backticks, in the order the greedy
\* matcher tries them.
Greedy == << <<1, 1>>, <<1, 0>>, <<0, 1>>, <<0, 0>> >>

RowMatchesAt(path, s, i) ==
    \E g \in 1..Len(Greedy) : RowAttempt(path, s, i, Greedy[g][1], Greedy[g][2]).ok

\* re.search of the row pattern: matched, and group(1) of the leftmost match
RowSearch(path, s) ==
    IF \E i \in 1..Len(s) : RowMatchesAt(path, s, i)
    THEN LET i == CHOOSE k \in 1..Len(s) :
                      /\ RowMatchesAt(path, s, k)
                      /\ \A h \in 1..(k - 1) : ~RowMatchesAt(path, s, h)
             g == CHOOSE k \in 1..Len(Greedy) :
                      /\ RowAttempt(path, s, i, Greedy[k][1], Greedy[k][2]).ok
                      /\ \A h \in 1..(k - 1) :
                            ~RowAttempt(path, s, i, Greedy[h][1], Greedy[h][2]).ok
         IN  [matched |-> TRUE,
              group |-> RowAttempt(path, s, i, Greedy[g][1], Greedy[g][2]).group]
    ELSE [matched |-> FALSE, group |-> <<>>]

\* s.strip()
RECURSIVE Strip(_)
Strip(s) ==
    IF s = <<>> THEN s
    ELSE IF IsSpace(Head(s)) THEN Strip(Tail(s))
    ELSE IF IsSpace(s[Len(s)]) THEN Strip(SubSeq(s, 1, Len(s) - 1))
    ELSE s

\* The body of the loop over options that fills in the descriptions.
Describe(option, readme_content) ==
    LET match == RowSearch(option.path, readme_content)
    IN  IF match.matched THEN [option EXCEPT !.description = Strip(match.group)]
        ELSE option

\* None, as fetch_github_readme returns it and as readme_content starts
None == AbsentFile

\* readme_content: the local README if it exists, else what GitHub returns if
\* kata_version is truthy, else None
ReadmeContent(readme, version, fetched) ==
    IF readme.exists THEN readme
    ELSE IF version # <<>> THEN fetched
    ELSE None

\* parse_kata_deploy_values, once values.yaml is known to exist
parse_kata_deploy_values(values, readme, version, excluded, fetched) ==
    LET extracted == extract_options(values, <<>>, excluded)
        readme_content == ReadmeContent(readme, version, fetched)
    IN  IF readme_content.exists /\ readme_content.text # <<>>
        THEN [i \in 1..Len(extracted) |-> Describe(extracted[i], readme_content.text)]
        ELSE extracted

(***************************************************************************)
(* Version resolution (main, lines 386-395).                               *)
(***************************************************************************)
\* The loop over chart_data.get('dependencies', []), from entry i on.
RECURSIVE FirstKataDeploy(_, _)
FirstKataDeploy(deps, i) ==
    IF i > Len(deps) THEN Unknown
    ELSE IF deps[i].name = KataDeploy
         THEN (IF deps[i].has_version THEN deps[i].version ELSE Unknown)
         ELSE FirstKataDeploy(deps, i + 1)

\* kata_version, or the exception the block raises
ResolveKataVersion(chart) ==
    IF ~chart.exists THEN [raised |-> "", version |-> Unknown]
    ELSE IF chart.kind # "mapping"
         THEN [raised |-> "AttributeError", version |-> Unknown]
    ELSE IF ~chart.has_dependencies THEN [raised |-> "", version |-> Unknown]
    ELSE IF chart.dependencies_kind # "list"
         THEN [raised |-> "TypeError", version |-> Unknown]
    ELSE [raised |-> "", version |-> FirstKataDeploy(chart.dependencies, 1)]

(***************************************************************************)
(* generate_report.                                                        *)
(***************************************************************************)
\* str(option.default)[:50]
DefaultStrLimit == 50

\* sorted(opts, key=lambda x: x.path): a stable sort
RECURSIVE InsertByPath(_, _)
InsertByPath(x, sorted) ==
    IF sorted = <<>> THEN <<x>>
    ELSE IF StrLess(x.path, Head(sorted).path) THEN <<x>> \o sorted
    ELSE <<Head(sorted)>> \o InsertByPath(x, Tail(sorted))

RECURSIVE SortedByPath(_)
SortedByPath(opts) ==
    IF opts = <<>> THEN <<>>
    ELSE InsertByPath(opts[Len(opts)], SortedByPath(SubSeq(opts, 1, Len(opts) - 1)))

\* len(documented) / (len(documented) + len(undocumented)) * 100 as :.1f prints
\* it, in tenths of a percent. (A tie of the rounding needs a total that is a
\* multiple of 16.)
Coverage(n_documented, n_undocumented) ==
    (2000 * n_documented + (n_documented + n_undocumented))
        \div (2 * (n_documented + n_undocumented))

NotAvailable == <<"N","/","A">>

NoDescription == <<"*","(","N","o"," ","d","e","s","c","r","i","p","t","i","o","n"," ","a","v","a","i","l","a","b","l","e",")","*">>

\* One row of the missing-documentation table of the github report.
GithubRow(option, alias) ==
    [path |-> PrefixedPath(alias, option),
     type |-> option.type,
     default |-> IF option.default.kind # "null"
                 THEN SubSeq(option.default.text, 1,
                             IF Len(option.default.text) < DefaultStrLimit
                             THEN Len(option.default.text) ELSE DefaultStrLimit)
                 ELSE NotAvailable,
     description |-> IF option.description # <<>> THEN option.description
                     ELSE NoDescription]

\* One entry of the missing-documentation list of the text report.
TextRow(option) ==
    [path |-> option.path,
     type |-> option.type,
     default |-> IF option.default.kind # "null" THEN option.default.text ELSE <<>>,
     description |-> option.description]

\* One entry of the list of documented options of the github report.
DocumentedRow(option, alias) ==
    [path |-> PrefixedPath(alias, option), type |-> option.type,
     default |-> <<>>, description |-> <<>>]

NoReport ==
    [format |-> "none", kata_version |-> <<>>, validation_date |-> <<>>,
     documented_options |-> 0, undocumented_options |-> 0, coverage |-> 0,
     missing |-> <<>>, all_documented |-> FALSE, documented_list |-> <<>>]

\* The division of the coverage line raises when no option was extracted.
CoverageRaises(n_documented, n_undocumented) == n_documented + n_undocumented = 0

\* generate_report: the report, or the exception it raises
generate_report(version, docd, undocd, output_format, alias, mtime) ==
    IF CoverageRaises(Len(docd), Len(undocd))
    THEN [raised |-> "ZeroDivisionError", report |-> NoReport]
    ELSE LET missing == SortedByPath(undocd)
             listed == SortedByPath(docd)
         IN  [raised |-> "",
              report |->
                IF output_format = "github"
                THEN [format |-> "github", kata_version |-> version,
                      validation_date |-> mtime,
                      documented_options |-> Len(docd),
                      undocumented_options |-> Len(undocd),
                      coverage |-> Coverage(Len(docd), Len(undocd)),
                      missing |-> [i \in 1..Len(missing) |-> GithubRow(missing[i], alias)],
                      all_documented |-> (undocd = <<>>),
                      documented_list |->
                          [i \in 1..Len(listed) |-> DocumentedRow(listed[i], alias)]]
                ELSE [format |-> "text", kata_version |-> version,
                      validation_date |-> <<>>,
                      documented_options |-> Len(docd),
                      undocumented_options |-> Len(undocd),
                      coverage |-> Coverage(Len(docd), Len(undocd)),
                      missing |-> [i \in 1..Len(missing) |-> TextRow(missing[i])],
                      all_documented |-> FALSE,
                      documented_list |-> <<>>]]

(***************************************************************************)
(* main, one action per stage of the pipeline.                             *)
(***************************************************************************)
\* print(...) of a progress line
Printed(line) == [line |-> line, report |-> NoReport]

\* print("\n" + report)
PrintedReport(r) == [line |-> "report", report |-> r]

\* The uncaught exception e ends the run: a traceback and exit status 1.
Abort(e) ==
    /\ exception' = e
    /\ exit_status' = 1
    /\ pc' = "done"

\* Lines 386-397: the version label from ./Chart.yaml.
ResolveVersion ==
    /\ pc = "version"
    /\ \E r \in {ResolveKataVersion(chart_yaml)} :
           IF r.raised # ""
           THEN /\ Abort(r.raised)
                /\ UNCHANGED <<kata_version, stdout>>
           ELSE /\ kata_version' = r.version
                /\ stdout' = Append(stdout, Printed("validating"))
                /\ pc' = "parse"
                /\ UNCHANGED <<exception, exit_status>>
    /\ UNCHANGED <<environment, options, all_content, documented, undocumented,
                   report, report_file>>

\* The check of lines 78-80 left out
ValuesFileAssumed(values_file) == TRUE

\* values_file.exists()
ValuesFileExists(values_file) == values_file.exists

\* Lines 399-405: parse_kata_deploy_values, which leaves with sys.exit(1) when
\* values.yaml does not exist.
ParseKataDeployValues ==
    /\ pc = "parse"
    /\ IF ~ValuesFileExists(values_yaml)
       THEN /\ stdout' = stdout \o <<Printed("parsing"), Printed("excluding"),
                                     Printed("error: values.yaml not found")>>
            /\ Abort("SystemExit")
            /\ UNCHANGED options
       ELSE /\ options' = parse_kata_deploy_values(values_yaml.data, readme_md,
                                                   kata_version, exclude_options, github)
            /\ stdout' = stdout \o <<Printed("parsing"), Printed("excluding")>>
                   \o (IF ~readme_md.exists /\ kata_version # <<>>
                       THEN <<Printed("fetching")>> ELSE <<>>)
                   \o <<Printed("found")>>
            /\ pc' = "check"
            /\ UNCHANGED <<exception, exit_status>>
    /\ UNCHANGED <<environment, kata_version, all_content, documented, undocumented,
                   report, report_file>>

\* Lines 407-416: check_documentation.
CheckDocumentation ==
    /\ pc = "check"
    /\ \E r \in {check_documentation(options, our_values, doc_files, subchart_alias)} :
           /\ all_content' = r.all_content
           /\ options' = r.options
           /\ documented' = r.documented
           /\ undocumented' = r.undocumented
    /\ stdout' = Append(stdout, Printed("checking"))
    /\ pc' = "report"
    /\ UNCHANGED <<environment, kata_version, report, report_file, exception,
                   exit_status>>

\* Line 419: generate_report.
GenerateReport ==
    /\ pc = "report"
    /\ \E r \in {generate_report(kata_version, documented, undocumented,
                                 args.output_format, subchart_alias, tmp_mtime)} :
           IF r.raised # ""
           THEN /\ Abort(r.raised)
                /\ UNCHANGED report
           ELSE /\ report' = r.report
                /\ pc' = "print"
                /\ UNCHANGED <<exception, exit_status>>
    /\ UNCHANGED <<environment, kata_version, options, all_content, documented,
                   undocumented, stdout, report_file>>

\* Line 422: the report goes to standard output.
PrintReport ==
    /\ pc = "print"
    /\ stdout' = Append(stdout, PrintedReport(report))
    /\ pc' = "save"
    /\ UNCHANGED <<environment, kata_version, options, all_content, documented,
                   undocumented, report, report_file, exception, exit_status>>

\* Lines 424-428: the report goes to /tmp/validation-report.md.
SaveReport ==
    /\ pc = "save"
    /\ report_file' = report
    /\ stdout' = Append(stdout, Printed("saved"))
    /\ pc' = "exit"
    /\ UNCHANGED <<environment, kata_version, options, all_content, documented,
                   undocumented, report, exception, exit_status>>

\* Whether lines 431-437 call sys.exit (with 1 or 0) or fall off the end of main.
CallsSysExit(undocd, arguments) ==
    IF undocd # <<>>
    THEN arguments.fail_on_missing \/ arguments.output_format = "github"
    ELSE TRUE

\* The output format left out of the condition of line 433
ExitStatusFlagOnly(undocd, arguments) ==
    IF undocd # <<>> /\ arguments.fail_on_missing THEN 1 ELSE 0

\* The exit status lines 431-437 leave: sys.exit(1), sys.exit(0), or 0 when main
\* returns.
ExitStatus(undocd, arguments) ==
    IF undocd # <<>>
    THEN (IF arguments.fail_on_missing \/ arguments.output_format = "github"
          THEN 1 ELSE 0)
    ELSE 0

\* Lines 430-437.
Exit ==
    /\ pc = "exit"
    /\ stdout' = Append(stdout, Printed(IF undocumented # <<>> THEN "failed" ELSE "passed"))
    /\ exit_status' = ExitStatus(undocumented, args)
    /\ exception' = IF CallsSysExit(undocumented, args) THEN "SystemExit" ELSE ""
    /\ pc' = "done"
    /\ UNCHANGED <<environment, kata_version, options, all_content, documented,
                   undocumented, report, report_file>>

(***************************************************************************)
(* The inputs of the model.                                                *)
(***************************************************************************)
Args == [output_format : {"text", "github"}, fail_on_missing : BOOLEAN]

Version1 == <<"3",".","2","1",".","0">>

Version2 == <<"3",".","2","2",".","0">>

OtherChart == <<"o","t","h","e","r">>

Dependency(name, has_version, version) ==
    [name |-> name, has_version |-> has_version, version |-> version]

DepEntries ==
    {Dependency(KataDeploy, TRUE, Version1), Dependency(KataDeploy, TRUE, Version2),
     Dependency(KataDeploy, FALSE, <<>>), Dependency(OtherChart, TRUE, Version1)}

Chart(exists, kind, has_dependencies, dependencies_kind, dependencies) ==
    [exists |-> exists, kind |-> kind, has_dependencies |-> has_dependencies,
     dependencies_kind |-> dependencies_kind, dependencies |-> dependencies]

\* No Chart.yaml in the working directory.
AbsentChart == Chart(FALSE, "null", FALSE, "list", <<>>)

\* An empty Chart.yaml: yaml.safe_load returns None.
EmptyChart == Chart(TRUE, "null", FALSE, "list", <<>>)

\* A Chart.yaml without a dependencies key.
ChartWithoutDependencies == Chart(TRUE, "mapping", FALSE, "list", <<>>)

\* A Chart.yaml whose dependencies key has no value: yaml.safe_load gives None.
ChartNullDependencies == Chart(TRUE, "mapping", TRUE, "null", <<>>)

ChartWith(deps) == Chart(TRUE, "mapping", TRUE, "list", deps)

ChartYamls ==
    {AbsentChart, EmptyChart, ChartWithoutDependencies, ChartNullDependencies}
    \cup {ChartWith(d) : d \in UNION {[1..k -> DepEntries] : k \in 0..MaxDeps}}

PipelineCharts ==
    {AbsentChart, EmptyChart, ChartWith(<<Dependency(KataDeploy, TRUE, Version1)>>)}

AbsentValues == [exists |-> FALSE, data |-> YamlNull]

Values(data) == [exists |-> TRUE, data |-> data]

\* values.yaml of the runs of the whole pipeline: absent, empty, or a small tree.
PipelineValues ==
    {AbsentValues, Values(YamlNull)}
    \cup {Values(t) : t \in Trees(PlainKeys, {YamlFalse}, MaxPipelineNodes)}

\* values.yaml of the runs that exercise extraction.
\* values.yaml of the runs that exercise extraction: every tree of at most
\* MaxNodes keys over Keys with one kind of leaf, and over PlainKeys with every
\* kind of leaf. The tables hold the item lists of each size below MaxNodes.
KeysTable == ItemListTable(Keys, {YamlFalse}, MaxNodes - 1)

LeavesTable == ItemListTable(PlainKeys, LeafValues, MaxNodes - 1)

\* values_yaml is a tree of at most MaxNodes keys: its first item has key k
\* and a value with m keys beneath it, the rest of its items the other keys.
InitTree(keys, leaves, table) ==
    \/ values_yaml = Values(Mapping(<<>>))
    \/ \E j \in 1..MaxNodes : \E m \in 0..(j - 1) : \E k \in keys :
          \E v \in (IF m = 0 THEN leaves \cup {Mapping(<<>>)}
                    ELSE {Mapping(f) : f \in table[m + 1]}) :
              \E rest \in table[j - m] :
                  /\ k \notin KeysOf(rest)
                  /\ values_yaml = Values(Mapping(<<Item(k, v)>> \o rest))

InitExtractValues ==
    \/ InitTree(Keys, {YamlFalse}, KeysTable)
    \/ InitTree(PlainKeys, LeafValues, LeavesTable)

\* values.yaml of the runs that exercise the documentation check.
CheckValues ==
    {Values(Mapping(<<Item(KeyHostOS, Mapping(<<Item(KeyEnv, YamlFalse)>>))>>)),
     Values(Mapping(<<Item(KeyEnv, YamlFalse), Item(KeyHostOS, YamlFalse)>>)),
     Values(Mapping(<<Item(KeyEnv, Mapping(<<Item(KeyEnv, YamlFalse)>>)),
                      Item(KeyHostOS, Mapping(<<Item(KeyEnv, YamlFalse)>>))>>)),
     Values(Mapping(<<Item(KeyDotted, YamlFalse),
                      Item(KeyHostOS, Mapping(<<Item(KeyEnv, YamlFalse)>>))>>)),
     Values(Mapping(<<Item(KeyEmpty, Mapping(<<Item(KeyEnv, YamlFalse)>>)),
                      Item(KeyEnv, YamlFalse)>>))}

ReadmeRow(cell, description) ==
    <<"|", " ">> \o cell \o <<" ", "|", " ">> \o description \o <<" ", "|", "\n">>

Ticked(p) == <<"BACKTICK">> \o p \o <<"BACKTICK">>

SampleReadme ==
    ReadmeRow(Ticked(KeyDotted), <<"H","o","s","t"," ","e","n","v">>)
    \o ReadmeRow(KeyEnv, <<"T","h","e"," ","e","n","v">>)

\* The local README and what GitHub would return.
ReadmeSources ==
    { <<File(SampleReadme), None>>, <<AbsentFile, None>>, <<AbsentFile, File(SampleReadme)>> }

\* Lines of documentation that mention p in each of the five forms, and one
\* that mentions it in none of them.
TextComment(p) == <<"#", " ", "s", "e", "t", "s", " ">> \o p \o <<" ", "o", "n">>

TextKey(p) == p \o <<" ", ":", " ", "1">>

TextBackticks(p) == <<"s", "e", "e", " ">> \o Ticked(p)

TextSet(p) == <<"-", "-", "S", "e", "t", " ">> \o p \o <<"=", "1">>

TextTable(p) == <<"|", " ">> \o p \o <<" ", "|", " ", "x", " ", "|">>

TextPlain(p) == <<"s", "e", "e", " ">> \o p

Mentions(p) ==
    {TextComment(p), TextKey(p), TextBackticks(p), TextSet(p), TextTable(p), TextPlain(p)}

UpperEnv == <<"E","N","V">>

\* What the documentation of the model mentions.
Mentioned ==
    {subchart_alias \o <<".">> \o KeyDotted, KeyDotted, KeyEnv, UpperEnv}

PipelineOurValues == {AbsentFile, File(TextKey(KeyEnv))}

PipelineDocs == {AbsentFile, File(TextComment(subchart_alias \o <<".">> \o KeyHostOS))}

CheckOurValues == {AbsentFile, File(TextKey(UpperEnv))}

CheckDocs == {AbsentFile} \cup {File(t) : t \in UNION {Mentions(p) : p \in Mentioned}}

\* --our-docs takes one file or more.
DocLists(choices) == UNION {[1..k -> choices] : k \in 1..MaxDocs}

PipelineDocLists == DocLists(PipelineDocs)

CheckDocLists == DocLists(CheckDocs)

NoDocLists == DocLists({AbsentFile})

TmpMtimes == { <<"1","7","6","2","1","3","1","6","0","0",".","0">> }

(***************************************************************************)
(* The specifications.                                                     *)
(***************************************************************************)
\* The state when main starts, after parse_args.
InitWith(arguments, charts, readmes, ours, doc_lists) ==
    /\ doc_files \in doc_lists
    /\ chart_yaml \in charts
    /\ args \in arguments
    /\ \E r \in readmes : readme_md = r[1] /\ github = r[2]
    /\ our_values \in ours
    /\ tmp_mtime \in TmpMtimes
    /\ pc = "version"
    /\ kata_version = <<>>
    /\ options = <<>>
    /\ all_content = <<>>
    /\ documented = <<>>
    /\ undocumented = <<>>
    /\ report = NoReport
    /\ stdout = <<>>
    /\ report_file = NoReport
    /\ exception = ""
    /\ exit_status = -1

TextArgs == {[output_format |-> "text", fail_on_missing |-> FALSE]}

\* The whole pipeline.
Init ==
    /\ values_yaml \in PipelineValues
    /\ InitWith(Args, PipelineCharts, ReadmeSources, PipelineOurValues, PipelineDocLists)

Next ==
    \/ ResolveVersion
    \/ ParseKataDeployValues
    \/ CheckDocumentation
    \/ GenerateReport
    \/ PrintReport
    \/ SaveReport
    \/ Exit

Spec == Init /\ [][Next]_vars

\* Version resolution over every Chart.yaml of the model.
InitVersion ==
    /\ values_yaml \in {AbsentValues, Values(Mapping(<<>>))}
    /\ InitWith(Args, ChartYamls, {<<AbsentFile, None>>}, {AbsentFile}, NoDocLists)

NextVersion == ResolveVersion \/ ParseKataDeployValues

SpecVersion == InitVersion /\ [][NextVersion]_vars

\* Extraction over every values.yaml tree of the model.
InitExtract ==
    /\ InitExtractValues
    /\ InitWith(TextArgs, {AbsentChart}, {<<File(SampleReadme), None>>}, {AbsentFile},
                NoDocLists)

NextExtract == ResolveVersion \/ ParseKataDeployValues

SpecExtract == InitExtract /\ [][NextExtract]_vars

\* The documentation check over every corpus of the model.
InitCheck ==
    /\ values_yaml \in CheckValues
    /\ InitWith(TextArgs, {AbsentChart}, {<<AbsentFile, None>>}, CheckOurValues,
                CheckDocLists)

NextCheck == ResolveVersion \/ ParseKataDeployValues \/ CheckDocumentation

SpecCheck == InitCheck /\ [][NextCheck]_vars

(***************************************************************************)
(* The claims.                                                             *)
(***************************************************************************)
Lines == {stdout[k].line : k \in 1..Len(stdout)}

\* extraction has run to its end in this run
Extracted == "found" \in Lines

\* check_documentation has run in this run
Checked == "checking" \in Lines

\* the run went through the last lines of main
ReachedEnd == pc = "done" /\ ("passed" \in Lines \/ "failed" \in Lines)

\* C1: in every run that reaches the end of main, the exit status is 1 exactly
\* when there are undocumented options and --fail-on-missing was given or the
\* output format is github; it is 0 in every other such run.
C1_ExitStatus ==
    ReachedEnd =>
        /\ exit_status \in {0, 1}
        /\ exit_status = 1 <=>
              /\ undocumented # <<>>
              /\ (args.fail_on_missing \/ args.output_format = "github")

\* C1's case: undocumented options in text mode without the flag end with 0.
C1_Witness ==
    /\ ReachedEnd
    /\ undocumented # <<>>
    /\ ~args.fail_on_missing
    /\ args.output_format = "text"
    /\ exit_status = 0

Count(seq, x) == Cardinality({k \in 1..Len(seq) : seq[k] = x})

Elements(seq) == {seq[k] : k \in 1..Len(seq)}

\* C2: documented and undocumented partition the options: each option is in
\* exactly one of the two lists, as often as it is in the input, and neither
\* list holds anything else.
C2_Partition ==
    Checked =>
        /\ Len(documented) + Len(undocumented) = Len(options)
        /\ Elements(documented) \cap Elements(undocumented) = {}
        /\ \A o \in Elements(options) \cup Elements(documented) \cup Elements(undocumented) :
              Count(documented, o) + Count(undocumented, o) = Count(options, o)

\* C2's case: a check that put options in both lists.
C2_Witness == Checked /\ documented # <<>> /\ undocumented # <<>>

\* C3: with no option extracted, generate_report raises no division error and
\* returns a report.
C3_NoDivisionError ==
    (Checked /\ pc # "report" /\ documented = <<>> /\ undocumented = <<>>) =>
        /\ exception # "ZeroDivisionError"
        /\ report # NoReport

\* C4: without values.yaml the run ends at once with exit status 1, and no
\* later stage runs: no option is extracted or described, nothing is checked,
\* no report is generated, printed or saved.
C4_MissingValuesIsFatal ==
    ~values_yaml.exists =>
        /\ pc \in {"version", "parse", "done"}
        /\ pc = "done" => exit_status = 1
        /\ options = <<>>
        /\ all_content = <<>>
        /\ documented = <<>>
        /\ undocumented = <<>>
        /\ report = NoReport
        /\ report_file = NoReport
        /\ Lines \cap {"fetching", "found", "checking", "report", "saved",
                       "passed", "failed"} = {}

\* C4's case: the run that parse_kata_deploy_values ended.
C4_Witness ==
    /\ ~values_yaml.exists
    /\ pc = "done"
    /\ exception = "SystemExit"
    /\ "error: values.yaml not found" \in Lines

\* The chains of keys that lead from the root of a tree to its leaves.
RECURSIVE LeafChainsOf(_)
LeafChainsOf(value) ==
    IF value.kind # "mapping" THEN {<<>>}
    ELSE UNION { { <<value.items[i].key>> \o c : c \in LeafChainsOf(value.items[i].value) }
                 : i \in 1..Len(value.items) }

LeafChains(tree) == IF tree.kind = "mapping" THEN LeafChainsOf(tree) ELSE {}

\* The dotted path of a chain of keys.
RECURSIVE PathOfChain(_)
PathOfChain(chain) ==
    IF chain = <<>> THEN <<>>
    ELSE CurrentPath(PathOfChain(SubSeq(chain, 1, Len(chain) - 1)), chain[Len(chain)])

\* The chain goes through a key that begins with '_' or whose path is excluded.
SkippedChain(chain) ==
    \E k \in 1..Len(chain) :
        \/ chain[k] # <<>> /\ chain[k][1] = "_"
        \/ \E x \in 1..Len(exclude_options) :
              exclude_options[x] = PathOfChain(SubSeq(chain, 1, k))

\* The leaves of the tree an option with this path and name can come from.
Origins(tree, path, name) ==
    {c \in LeafChains(tree) :
        ~SkippedChain(c) /\ PathOfChain(c) = path /\ c[Len(c)] = name}

\* C5: no extracted option has an excluded path or a key that begins with '_',
\* and none comes from beneath a key that is excluded or begins with '_'.
C5_NothingSkippedIsExtracted ==
    Extracted =>
        \A i \in 1..Len(options) :
            /\ \A x \in 1..Len(exclude_options) : options[i].path # exclude_options[x]
            /\ ~(options[i].name # <<>> /\ options[i].name[1] = "_")
            /\ Cardinality({j \in 1..Len(options) :
                               /\ options[j].path = options[i].path
                               /\ options[j].name = options[i].name})
                 <= Cardinality(Origins(values_yaml.data, options[i].path, options[i].name))

\* C5's case: a leaf beneath a mapping whose key begins with '_', beside a leaf
\* that is extracted.
C5_Witness ==
    /\ Extracted
    /\ options # <<>>
    /\ \E c \in LeafChains(values_yaml.data) : Len(c) >= 2 /\ c[1] = KeyInternal

\* C6, as claimed: the paths of the extracted options are pairwise distinct.
C6_PathsDistinct ==
    \A i, j \in 1..Len(options) : i # j => options[i].path # options[j].path

\* Every key of the tree, at every level.
RECURSIVE AllKeys(_)
AllKeys(value) ==
    IF value.kind # "mapping" THEN {}
    ELSE UNION { {value.items[i].key} \cup AllKeys(value.items[i].value)
                 : i \in 1..Len(value.items) }

\* No key of the tree is empty or holds a dot.
DotFreeKeys(tree) ==
    \A key \in AllKeys(tree) : key # <<>> /\ \A k \in 1..Len(key) : key[k] # "."

\* C6, amended: when no key of the tree is empty or holds a dot, the paths of
\* the extracted options are pairwise distinct.
C6_PathsDistinctForDotFreeKeys ==
    (Extracted /\ DotFreeKeys(values_yaml.data)) => C6_PathsDistinct

\* C6's case: three options from a tree of dot-free keys, one of them nested.
C6_Witness ==
    /\ Extracted
    /\ DotFreeKeys(values_yaml.data)
    /\ Len(options) >= 2
    /\ \E i \in 1..Len(options) : options[i].path # options[i].name

\* The Chart.yaml entries named kata-deploy.
KataEntries(chart) ==
    {i \in 1..Len(chart.dependencies) : chart.dependencies[i].name = KataDeploy}

\* The label C7 gives a Chart.yaml.
ClaimedLabel(chart) ==
    IF ~chart.exists \/ KataEntries(chart) = {} THEN Unknown
    ELSE LET first == CHOOSE i \in KataEntries(chart) : \A j \in KataEntries(chart) : i <= j
         IN  IF chart.dependencies[first].has_version
             THEN chart.dependencies[first].version ELSE Unknown

\* C7: version resolution never ends the run: the label is "unknown" when
\* Chart.yaml is absent or names no kata-deploy dependency, else the version
\* of the first entry named kata-deploy, and the run goes on to extraction.
C7_VersionResolutionNeverAborts ==
    pc # "version" =>
        /\ exception \notin {"AttributeError", "TypeError"}
        /\ kata_version = ClaimedLabel(chart_yaml)
        /\ "validating" \in Lines

\* C8: once extraction succeeded, the run prints the report and saves the same
\* report before it ends.
C8_ReportPrintedAndSaved ==
    (pc = "done" /\ Extracted) =>
        /\ report # NoReport
        /\ report_file = report
        /\ \E k \in 1..Len(stdout) : stdout[k] = PrintedReport(report)

\* C9: the type of every extracted option is the kind of its default, and the
\* default is never a mapping.
C9_TypeIsKindOfDefault ==
    Extracted =>
        \A i \in 1..Len(options) :
            LET o == options[i]
            IN  /\ o.default.kind # "mapping"
                /\ o.type # "dict"
                /\ o.default.kind = "boolean" => o.type = "bool"
                /\ o.default.kind = "string" => o.type = "str"
                /\ o.default.kind = "integer" => o.type = "int"
                /\ o.default.kind = "sequence" => o.type = "list"
                /\ o.default.kind = "null" => o.type = "NoneType"

\* C9's case: a sequence extracted from inside a mapping, beside a boolean.
C9_Witness ==
    /\ Extracted
    /\ \E i, j \in 1..Len(options) :
          /\ options[i].type = "list"
          /\ options[i].path # options[i].name
          /\ options[j].type = "bool"

\* The candidates of an option in the order of their priority.
Candidates(o) == << subchart_alias \o <<".">> \o o.path, o.path, o.name >>

\* The candidates of an option that the corpus mentions in one of the forms.
Hits(o) == {k \in 1..3 : AnyFormMatches(Candidates(o)[k], all_content)}

\* C10: after the check, documented_in of an option holds exactly the first of
\* its candidates (prefixed path, path, name) that the corpus mentions, and the
\* option is documented; it is empty when the corpus mentions none, and the
\* option is undocumented.
C10_FirstCandidateWins ==
    Checked =>
        \A i \in 1..Len(options) :
            LET o == options[i]
            IN  IF Hits(o) = {}
                THEN /\ o.documented_in = {}
                     /\ o \in Elements(undocumented)
                     /\ o \notin Elements(documented)
                ELSE /\ o.documented_in =
                          {Candidates(o)[CHOOSE k \in Hits(o) : \A h \in Hits(o) : k <= h]}
                     /\ Cardinality(o.documented_in) = 1
                     /\ o \in Elements(documented)
                     /\ o \notin Elements(undocumented)

\* C10's case: the corpus mentions the prefixed path and the bare name of an
\* option in different places, and the prefixed path is what is recorded.
C10_Witness ==
    /\ Checked
    /\ \E i \in 1..Len(options) :
          /\ Hits(options[i]) = {1, 3}
          /\ options[i].name # options[i].path
          /\ options[i].documented_in = {Candidates(options[i])[1]}

====
